---- MODULE Spec2Model ----
(***************************************************************************)
(* TradingView -> Telegram webhook relay (src/app.py).                     *)
(*                                                                         *)
(* The module models the Flask process: the startup configuration check,   *)
(* the process-wide TradingAlertManager (alert_count, last_alert_time,     *)
(* alert_history), the request handlers, the outbound Telegram POST and    *)
(* the threads of the threaded development server.                         *)
(*                                                                         *)
(* Python values are tagged records [t |-> type, v |-> payload].  A Python *)
(* str is a sequence of tokens: W(w) is a run of plain characters (the     *)
(* braces, the colon and the comma are tokens of their own), N(n) a        *)
(* numeric literal and Q(s) a JSON string literal whose decoded content is *)
(* the str s.                                                              *)
(***************************************************************************)
EXTENDS Integers, Sequences, FiniteSets, TLC

VARIABLES
    proc,             \* "startup" | "serving" | "exited"
    env,              \* os.environ: [token, chat]
    alert_count,      \* alert_manager.alert_count
    last_alert_time,  \* alert_manager.last_alert_time
    alert_history,    \* alert_manager.alert_history
    clock,            \* the wall clock read by datetime.now(), in seconds
    request,          \* the request of the handler that ran last
    response,         \* the response it returned
    posts,            \* header numbers of the messages POSTed to Telegram, in order
    telegram,         \* how the last POST to Telegram ended
    pc,               \* per server thread: its position in the /webhook handler
    local             \* per server thread: the handler's local variables

vars == <<proc, env, alert_count, last_alert_time, alert_history, clock,
          request, response, posts, telegram, pc, local>>

-----------------------------------------------------------------------------
(* Python values *)

PNone == [t |-> "none", v |-> 0]
PInt(n) == [t |-> "int", v |-> n]
PStr(s) == [t |-> "str", v |-> s]
PDict(f) == [t |-> "dict", v |-> f]

W(w) == [t |-> "w", v |-> w]
N(n) == [t |-> "n", v |-> n]
Q(s) == [t |-> "q", v |-> s]

S(w) == <<W(w)>>
EmptyMap == [k \in {} |-> PNone]

Put(f, k, x) == [j \in (DOMAIN f) \cup {k} |-> IF j = k THEN x ELSE f[j]]

IsTok(tok, w) == tok.t = "w" /\ tok.v = w

\* bool(x): Python truthiness
Truthy(x) ==
    CASE x.t = "none" -> FALSE
      [] x.t = "int"  -> x.v # 0
      [] x.t = "str"  -> Len(x.v) > 0
      [] x.t = "dict" -> DOMAIN x.v # {}

\* str.lower(), character run by character run
LowerWord(w) ==
    CASE w = "BUY"   -> "buy"
      [] w = "Buy"   -> "buy"
      [] w = "SELL"  -> "sell"
      [] w = "Close" -> "close"
      [] w = "HOLD"  -> "hold"
      [] OTHER       -> w

\* str.upper(), character run by character run
UpperWord(w) ==
    CASE w = "buy"   -> "BUY"
      [] w = "Buy"   -> "BUY"
      [] w = "sell"  -> "SELL"
      [] w = "entry" -> "ENTRY"
      [] w = "exit"  -> "EXIT"
      [] w = "close" -> "CLOSE"
      [] w = "Close" -> "CLOSE"
      [] w = "long"  -> "LONG"
      [] w = "short" -> "SHORT"
      [] w = "hold"  -> "HOLD"
      [] OTHER       -> w

RECURSIVE Lower(_)
Lower(s) ==
    [i \in 1..Len(s) |->
        CASE s[i].t = "w" -> W(LowerWord(s[i].v))
          [] s[i].t = "q" -> Q(Lower(s[i].v))
          [] OTHER        -> s[i]]

RECURSIVE Upper(_)
Upper(s) ==
    [i \in 1..Len(s) |->
        CASE s[i].t = "w" -> W(UpperWord(s[i].v))
          [] s[i].t = "q" -> Q(Upper(s[i].v))
          [] OTHER        -> s[i]]

\* str.replace(ch, ''), for a one-character ch that is a token of its own
Strip(s, ch) == SelectSeq(s, LAMBDA tok : ~IsTok(tok, ch))

StartsWith(s, ch) == Len(s) > 0 /\ IsTok(s[1], ch)
EndsWith(s, ch) == Len(s) > 0 /\ IsTok(s[Len(s)], ch)

\* sub in s, for strs
Contains(s, sub) ==
    \E i \in 0..(Len(s) - Len(sub)) : SubSeq(s, i + 1, i + Len(sub)) = sub

-----------------------------------------------------------------------------
(* json.loads *)

JFail == [ok |-> FALSE, val |-> PNone]
JOk(x) == [ok |-> TRUE, val |-> x]

IsScalarTok(tok) == tok.t = "q" \/ tok.t = "n" \/ IsTok(tok, "null")

ScalarVal(tok) ==
    CASE tok.t = "q" -> PStr(tok.v)
      [] tok.t = "n" -> PInt(tok.v)
      [] OTHER       -> PNone

\* the members of an object: "key" : scalar (, "key" : scalar)*, a repeated
\* key keeping its last value
RECURSIVE ParseMembers(_, _)
ParseMembers(toks, acc) ==
    IF Len(toks) < 3 THEN JFail
    ELSE IF toks[1].t # "q" \/ ~IsTok(toks[2], ":") \/ ~IsScalarTok(toks[3]) THEN JFail
    ELSE LET acc2 == Put(acc, toks[1].v, ScalarVal(toks[3])) IN
         IF Len(toks) = 3 THEN JOk(PDict(acc2))
         ELSE IF ~IsTok(toks[4], ",") THEN JFail
         ELSE ParseMembers(SubSeq(toks, 5, Len(toks)), acc2)

\* json.loads(s): ok = FALSE is JSONDecodeError.  Objects hold scalar members.
JsonLoads(s) ==
    IF Len(s) = 0 THEN JFail
    ELSE IF Len(s) = 1 THEN
        (IF IsScalarTok(s[1]) THEN JOk(ScalarVal(s[1])) ELSE JFail)
    ELSE IF StartsWith(s, "{") /\ EndsWith(s, "}") THEN
        (IF Len(s) = 2 THEN JOk(PDict(EmptyMap))
         ELSE ParseMembers(SubSeq(s, 2, Len(s) - 1), EmptyMap))
    ELSE JFail

-----------------------------------------------------------------------------
(* TradingAlertManager *)

HISTORY_MAX == 100

DictGet(d, k, default) == IF S(k) \in DOMAIN d THEN d[S(k)] ELSE default

\* validate_alert_data(data): "ok", "ValueError" (with the message in detail)
\* or another exception raised by an operation the value does not support
Outcome(kind, detail) == [kind |-> kind, detail |-> detail]

VALID_ACTIONS == {"buy", "sell", "entry", "exit", "close", "long", "short"}

\* field in data
HasField(data, f) ==
    CASE data.t = "dict" -> [ok |-> TRUE, val |-> S(f) \in DOMAIN data.v]
      [] data.t = "str"  -> [ok |-> TRUE, val |-> Contains(data.v, S(f))]
      [] OTHER           -> [ok |-> FALSE, val |-> FALSE]

ActionIsValid(a) == \E w \in VALID_ACTIONS : Lower(a) = S(w)

ValidateAlertData(data) ==
    LET sym == HasField(data, "symbol")
        act == HasField(data, "action") IN
    IF ~sym.ok THEN Outcome("Exception", "TypeError")
    ELSE IF ~sym.val THEN Outcome("ValueError", "Missing required field: symbol")
    ELSE IF ~act.ok THEN Outcome("Exception", "TypeError")
    ELSE IF ~act.val THEN Outcome("ValueError", "Missing required field: action")
    ELSE IF data.t # "dict" THEN Outcome("Exception", "TypeError")
    ELSE IF data.v[S("action")].t # "str" THEN Outcome("Exception", "AttributeError")
    ELSE IF ~ActionIsValid(data.v[S("action")].v) THEN Outcome("ValueError", "Invalid action")
    ELSE Outcome("ok", "")

Signal(e, txt, s, u) == [emoji |-> e, signal_text |-> txt, sentiment |-> s, urgency |-> u]

\* signal_map without its entry for close
DetermineSignalNoClose(action) ==
    LET a == Lower(action) IN
    CASE a = S("buy")   -> Signal("green", S("LONG ENTRY"), "BULLISH", "HIGH")
      [] a = S("long")  -> Signal("green", S("LONG POSITION"), "BULLISH", "HIGH")
      [] a = S("sell")  -> Signal("red", S("SHORT ENTRY"), "BEARISH", "HIGH")
      [] a = S("short") -> Signal("red", S("SHORT POSITION"), "BEARISH", "HIGH")
      [] a = S("exit")  -> Signal("white", S("POSITION EXIT"), "NEUTRAL", "MEDIUM")
      [] OTHER          -> Signal("white", Upper(a), "NEUTRAL", "LOW")

DetermineTradingSignal(action) ==
    LET a == Lower(action) IN
    CASE a = S("buy")   -> Signal("green", S("LONG ENTRY"), "BULLISH", "HIGH")
      [] a = S("long")  -> Signal("green", S("LONG POSITION"), "BULLISH", "HIGH")
      [] a = S("sell")  -> Signal("red", S("SHORT ENTRY"), "BEARISH", "HIGH")
      [] a = S("short") -> Signal("red", S("SHORT POSITION"), "BEARISH", "HIGH")
      [] a = S("exit")  -> Signal("white", S("POSITION EXIT"), "NEUTRAL", "MEDIUM")
      [] a = S("close") -> Signal("white", S("POSITION CLOSE"), "NEUTRAL", "MEDIUM")
      [] OTHER          -> Signal("white", Upper(a), "NEUTRAL", "LOW")

\* current_time.strftime("%Y-%m-%d %H:%M:%S")
FormatTime(now) == PStr(<<N(now)>>)

AlertRecord(id, data, now) ==
    [alert_id  |-> id,
     symbol    |-> DictGet(data, "symbol", PStr(S("UNKNOWN"))),
     action    |-> DictGet(data, "action", PStr(<<>>)),
     price     |-> DictGet(data, "price", PStr(S("N/A"))),
     timestamp |-> FormatTime(now),
     epoch     |-> now]

\* pop() instead of pop(0): the newest entry goes
AppendDropNewest(hist, rec) ==
    LET h == Append(hist, rec) IN
    IF Len(h) > HISTORY_MAX THEN SubSeq(h, 1, Len(h) - 1) ELSE h

\* self.alert_history.append(record); if len(...) > 100: pop(0)
AppendBounded(hist, rec) ==
    LET h == Append(hist, rec) IN
    IF Len(h) > HISTORY_MAX THEN Tail(h) ELSE h

NoMessage == [header_id |-> 0, urgent |-> FALSE, signal |-> Signal("", <<>>, "", ""),
              symbol |-> PNone, price |-> PNone, time |-> PNone,
              tag |-> <<>>, action |-> PNone]

\* the header and the template of the message; id is self.alert_count as the
\* header reads it
RenderMessage(id, data, now) ==
    LET sig == DetermineTradingSignal(DictGet(data, "action", PStr(<<>>)).v)
        symbol == DictGet(data, "symbol", PStr(S("UNKNOWN"))) IN
    [header_id |-> id,
     urgent    |-> sig.urgency = "HIGH",
     signal    |-> sig,
     symbol    |-> symbol,
     price     |-> DictGet(data, "price", PStr(S("N/A"))),
     time      |-> FormatTime(now),
     tag       |-> Strip(Strip(symbol.v, "/"), "."),
     action    |-> DictGet(data, "action", PStr(<<>>))]

\* symbol.replace(...) needs a str
RenderRaises(data) == DictGet(data, "symbol", PStr(S("UNKNOWN"))).t # "str"

\* the record numbered before the increment instead of after it
FormatStaleId(count, hist, data, now) ==
    [alert_count     |-> count + 1,
     last_alert_time |-> FormatTime(now),
     alert_history   |-> AppendBounded(hist, AlertRecord(count, data.v, now)),
     raised          |-> RenderRaises(data.v),
     message         |-> IF RenderRaises(data.v) THEN NoMessage
                         ELSE RenderMessage(count + 1, data.v, now)]

\* last_alert_time written by the first alert only
FormatKeepsFirstTime(count, hist, data, now) ==
    LET id == count + 1 IN
    [alert_count     |-> id,
     last_alert_time |-> IF hist = <<>> THEN FormatTime(now) ELSE hist[1].timestamp,
     alert_history   |-> AppendBounded(hist, AlertRecord(id, data.v, now)),
     raised          |-> RenderRaises(data.v),
     message         |-> IF RenderRaises(data.v) THEN NoMessage
                         ELSE RenderMessage(id, data.v, now)]

\* format_professional_alert(data) run without interruption, on a dict whose
\* action is a str: the manager's new fields, and the message or the exception
FormatProfessionalAlert(count, hist, data, now) ==
    LET id == count + 1 IN
    [alert_count     |-> id,
     last_alert_time |-> FormatTime(now),
     alert_history   |-> AppendBounded(hist, AlertRecord(id, data.v, now)),
     raised          |-> RenderRaises(data.v),
     message         |-> IF RenderRaises(data.v) THEN NoMessage
                         ELSE RenderMessage(id, data.v, now)]

\* how requests.post(url, json=payload, timeout=15) can end
SendOutcomes == {"200", "non200", "Timeout", "ConnectionError", "Exception"}

\* a timeout escaping as success
SendIgnoresTimeout(outcome) == outcome \in {"200", "Timeout"}

\* send_telegram_alert(message): True only for status 200; never raises
SendTelegramAlert(outcome) == outcome = "200"

-----------------------------------------------------------------------------
(* Requests *)

CT_NONE == PNone
CT_JSON == PStr(S("application/json"))
CT_TEXT == PStr(S("text/plain"))
CT_FORM == PStr(S("application/x-www-form-urlencoded"))

\* request.content_type and m in request.content_type
CtHas(ct, m) == ct.t = "str" /\ Contains(ct.v, S(m))

Member(k, tok) == <<Q(S(k)), W(":"), tok>>
Obj1(a) == <<W("{")>> \o a \o <<W("}")>>
Obj2(a, b) == <<W("{")>> \o a \o <<W(",")>> \o b \o <<W("}")>>
Obj3(a, b, c) == <<W("{")>> \o a \o <<W(",")>> \o b \o <<W(",")>> \o c \o <<W("}")>>

bEmpty == <<>>
bPlain == S("hello")
bBraceJunk == <<W("{"), W("oops"), W("}")>>
bBuy == Obj3(Member("symbol", Q(S("BTCUSDT"))), Member("action", Q(S("buy"))),
             Member("price", Q(S("50000"))))
bSellUpper == Obj2(Member("symbol", Q(S("ETHUSDT"))), Member("action", Q(S("SELL"))))
bEntry == Obj2(Member("symbol", Q(<<W("EUR"), W("/"), W("USD")>>)), Member("action", Q(S("entry"))))
bNoAction == Obj1(Member("symbol", Q(S("X"))))
bNoSymbol == Obj1(Member("action", Q(S("buy"))))
bHold == Obj2(Member("symbol", Q(S("X"))), Member("action", Q(S("hold"))))
bActionInt == Obj2(Member("symbol", Q(S("X"))), Member("action", N(5)))
bSymbolInt == Obj2(Member("symbol", N(5)), Member("action", Q(S("buy"))))
bWrapped == Obj1(Member("raw_message", Q(bBuy)))
bWrappedOther == Obj3(Member("raw_message", Q(bBuy)), Member("symbol", Q(S("X"))),
                      Member("action", Q(S("exit"))))
bWrappedJunk == Obj3(Member("raw_message", Q(bBraceJunk)), Member("symbol", Q(S("X"))),
                     Member("action", Q(S("Close"))))
bRawInt == Obj3(Member("raw_message", N(5)), Member("symbol", Q(S("X"))),
                Member("action", Q(S("long"))))
bEmptyObj == <<W("{"), W("}")>>
bZero == <<N(0)>>
bFive == <<N(5)>>
bNull == S("null")
bExit == Obj2(Member("symbol", Q(S("X"))), Member("action", Q(S("exit"))))
bShort == Obj2(Member("symbol", Q(S("X"))), Member("action", Q(S("short"))))

Bodies == {bEmpty, bPlain, bBraceJunk, bBuy, bSellUpper, bEntry, bNoAction, bNoSymbol,
           bHold, bActionInt, bSymbolInt, bWrapped, bWrappedOther, bWrappedJunk, bRawInt,
           bEmptyObj, bZero, bFive, bNull, bExit, bShort}

fBuy == (S("symbol") :> PStr(S("BTCUSDT"))) @@ (S("action") :> PStr(S("Buy")))
fWrapped == (S("raw_message") :> PStr(bSellUpper))
fWrappedOther == (S("raw_message") :> PStr(bSellUpper)) @@ (S("symbol") :> PStr(S("X")))
                 @@ (S("action") :> PStr(S("short")))

Forms == {fBuy, fWrapped, fWrappedOther}

Req(route, ct, body, form, raises) ==
    [method |-> "POST", route |-> route, content_type |-> ct, body |-> body, form |-> form,
     form_raises |-> raises]

\* The POST /webhook requests.  Flask fills request.form only for a form
\* content type, whose body the form parser has consumed; form_raises is an
\* access to request.form that raises.
WebhookRequests ==
    {Req("/webhook", ct, b, EmptyMap, FALSE) : ct \in {CT_NONE, CT_JSON, CT_TEXT}, b \in Bodies}
    \cup {Req("/webhook", CT_FORM, bEmpty, f, FALSE) : f \in Forms \cup {EmptyMap}}
    \cup {Req("/webhook", CT_TEXT, b, EmptyMap, TRUE) : b \in {bPlain, bBraceJunk}}

\* the requests of the specifications that follow the counters rather than the parser
CoreRequests ==
    {Req("/webhook", CT_JSON, bBuy, EmptyMap, FALSE),
     Req("/webhook", CT_TEXT, bSellUpper, EmptyMap, FALSE),
     Req("/webhook", CT_JSON, bSymbolInt, EmptyMap, FALSE),
     Req("/webhook", CT_JSON, bActionInt, EmptyMap, FALSE),
     Req("/webhook", CT_JSON, bNoAction, EmptyMap, FALSE),
     Req("/webhook", CT_NONE, bEmpty, EmptyMap, FALSE)}

Get(route) == [Req(route, CT_NONE, bEmpty, EmptyMap, FALSE) EXCEPT !.method = "GET"]

-----------------------------------------------------------------------------
(* tradingview_webhook: the payload *)

\* the last-resort branch without its test for an empty body
ResolveWrapsEmpty(req) ==
    LET ct == req.content_type
        loaded == JsonLoads(req.body) IN
    IF CtHas(ct, "application/json") THEN
        (IF loaded.ok THEN loaded.val ELSE PNone)
    ELSE IF CtHas(ct, "text/plain") THEN
        (IF Len(req.body) = 0 THEN PNone
         ELSE IF loaded.ok THEN loaded.val
         ELSE IF req.form_raises THEN PDict(S("raw_message") :> PStr(req.body))
         ELSE PDict(req.form))
    ELSE IF DOMAIN req.form # {} THEN PDict(req.form)
    ELSE IF loaded.ok THEN loaded.val
    ELSE PDict(S("raw_message") :> PStr(req.body))

\* the text/plain branch without its json.loads attempt
ResolveTextRaw(req) ==
    LET ct == req.content_type
        loaded == JsonLoads(req.body) IN
    IF CtHas(ct, "application/json") THEN
        (IF loaded.ok THEN loaded.val ELSE PNone)
    ELSE IF CtHas(ct, "text/plain") THEN
        (IF Len(req.body) = 0 THEN PNone
         ELSE PDict(S("raw_message") :> PStr(req.body)))
    ELSE IF DOMAIN req.form # {} THEN PDict(req.form)
    ELSE IF Len(req.body) = 0 THEN PNone
    ELSE IF loaded.ok THEN loaded.val
    ELSE PDict(S("raw_message") :> PStr(req.body))

\* lines 354-418: data after the content-type cascade, PNone for None
Resolve(req) ==
    LET ct == req.content_type
        loaded == JsonLoads(req.body) IN
    IF CtHas(ct, "application/json") THEN
        \* request.get_json() raises on a body that is not JSON
        (IF loaded.ok THEN loaded.val ELSE PNone)
    ELSE IF CtHas(ct, "text/plain") THEN
        (IF Len(req.body) = 0 THEN PNone
         ELSE IF loaded.ok THEN loaded.val
         ELSE IF req.form_raises THEN PDict(S("raw_message") :> PStr(req.body))
         ELSE PDict(req.form))
    ELSE IF DOMAIN req.form # {} THEN PDict(req.form)
    ELSE IF Len(req.body) = 0 THEN PNone
    ELSE IF loaded.ok THEN loaded.val
    ELSE PDict(S("raw_message") :> PStr(req.body))

\* lines 433-447: processed_data
Unwrap(data) ==
    IF data.t = "dict" /\ S("raw_message") \in DOMAIN data.v THEN
        LET raw_msg == data.v[S("raw_message")] IN
        IF raw_msg.t # "str" THEN data
        ELSE IF StartsWith(raw_msg.v, "{") /\ EndsWith(raw_msg.v, "}") THEN
            (IF JsonLoads(raw_msg.v).ok THEN JsonLoads(raw_msg.v).val ELSE data)
        ELSE data
    ELSE data

-----------------------------------------------------------------------------
(* Responses *)

Resp(code, status, message, detail) ==
    [code |-> code, status |-> status, message |-> message, detail |-> detail,
     alert_id |-> 0, symbol |-> PNone, action |-> PNone,
     count |-> 0, last_time |-> PNone, recent |-> <<>>,
     configured |-> FALSE, parsed |-> PNone, results |-> <<>>]

NoResponse == Resp(0, "", "", "")
NoRequest == Get("")
NoTelegram == [outcome |-> "", message |-> NoMessage]

MSG_NO_DATA == "No data received or could be parsed"
MSG_INVALID == "Data validation failed"
MSG_INTERNAL == "Internal server error"
MSG_DELIVERED == "Trading alert processed and delivered to Telegram"
MSG_NOT_SENT == "Alert processed but failed to send to Telegram"

\* lines 463-480: the response after send_telegram_alert; count is
\* alert_manager.alert_count as the handler reads it then
WebhookSent(success, pd, count) ==
    IF success THEN
        [Resp(200, "success", MSG_DELIVERED, "") EXCEPT
            !.symbol = DictGet(pd.v, "symbol", PNone),
            !.action = DictGet(pd.v, "action", PNone),
            !.alert_id = count]
    ELSE Resp(500, "error", MSG_NOT_SENT, "")

\* lines 420-450 and 482-502: the response of a request that stops before
\* format_professional_alert, NoResponse when it does not stop there
WebhookRejected(req) ==
    LET data == Resolve(req)
        v == IF Truthy(data) THEN ValidateAlertData(Unwrap(data)) ELSE Outcome("ok", "") IN
    IF ~Truthy(data) THEN Resp(400, "error", MSG_NO_DATA, "")
    ELSE IF v.kind = "ValueError" THEN Resp(400, "error", MSG_INVALID, v.detail)
    ELSE IF v.kind = "Exception" THEN Resp(500, "error", MSG_INTERNAL, v.detail)
    ELSE NoResponse

\* what the handler computes from the request alone, once per request
Ingest ==
    [req \in WebhookRequests |->
        [rejected |-> WebhookRejected(req), pd |-> Unwrap(Resolve(req))]]

-----------------------------------------------------------------------------
(* Bounds *)

MaxAlerts == 2      \* alerts formatted in Spec
IngestAlerts == 1   \* alerts formatted in SpecIngest
MaxClock == 2       \* seconds the clock runs
NThreads == 2       \* server threads in SpecConc
MaxConcAlerts == 2  \* requests the threads take in SpecConc
FifoExtra == 2      \* alerts formatted past HISTORY_MAX in SpecFifo

Threads == 1..NThreads

-----------------------------------------------------------------------------
(* Startup *)

EnvValues == {PNone, PStr(<<>>), PStr(S("set"))}

Init ==
    /\ proc = "startup"
    /\ env \in [token : EnvValues, chat : EnvValues]
    /\ alert_count = 0
    /\ last_alert_time = PNone
    /\ alert_history = <<>>
    /\ clock = 0
    /\ request = NoRequest
    /\ response = NoResponse
    /\ posts = <<>>
    /\ telegram = NoTelegram
    /\ pc = [t \in Threads |-> "idle"]
    /\ local = [t \in Threads |-> [req |-> NoRequest, data |-> PNone, now |-> 0, tmp |-> 0,
                                   rec_id |-> 0, header_id |-> 0, success |-> FALSE,
                                   response |-> NoResponse]]

\* lines 76-84: sys.exit(1) unless both values are set and non-empty
\* "and" in place of "or" at line 79: exits only when both are missing
StartupNeedsEither ==
    /\ proc = "startup"
    /\ proc' = IF ~Truthy(env.token) /\ ~Truthy(env.chat) THEN "exited" ELSE "serving"
    /\ UNCHANGED <<env, alert_count, last_alert_time, alert_history, clock,
                   request, response, posts, telegram, pc, local>>

Startup ==
    /\ proc = "startup"
    /\ proc' = IF ~Truthy(env.token) \/ ~Truthy(env.chat) THEN "exited" ELSE "serving"
    /\ UNCHANGED <<env, alert_count, last_alert_time, alert_history, clock,
                   request, response, posts, telegram, pc, local>>

Serving == proc = "serving" /\ \A t \in Threads : pc[t] = "idle"

Tick ==
    /\ Serving
    /\ clock < MaxClock
    /\ clock' = clock + 1
    /\ UNCHANGED <<proc, env, alert_count, last_alert_time, alert_history,
                   request, response, posts, telegram, pc, local>>

-----------------------------------------------------------------------------
(* Handlers, each run without interruption *)

\* POST /webhook
Webhook(req, cap) ==
    /\ Serving
    /\ request' = req
    /\ IF Ingest[req].rejected # NoResponse THEN
          /\ response' = Ingest[req].rejected
          /\ UNCHANGED <<alert_count, last_alert_time, alert_history, posts, telegram>>
       ELSE
          LET pd == Ingest[req].pd
              f == FormatProfessionalAlert(alert_count, alert_history, pd, clock) IN
          /\ alert_count < cap
          /\ alert_count' = f.alert_count
          /\ last_alert_time' = f.last_alert_time
          /\ alert_history' = f.alert_history
          /\ IF f.raised THEN
                /\ response' = Resp(500, "error", MSG_INTERNAL, "AttributeError")
                /\ UNCHANGED <<posts, telegram>>
             ELSE
                \E o \in SendOutcomes :
                    /\ posts' = Append(posts, f.message.header_id)
                    /\ telegram' = [outcome |-> o, message |-> f.message]
                    /\ response' = WebhookSent(SendTelegramAlert(o), pd, f.alert_count)
    /\ UNCHANGED <<proc, env, clock, pc, local>>

Dotted(a, b) == <<W(a), W("."), W(b)>>

\* test_data of test_alert and test_scenarios of test_scalping_alert
TEST_DATA ==
    PDict((S("symbol") :> PStr(Dotted("BBCA", "JK"))) @@ (S("action") :> PStr(S("buy")))
          @@ (S("price") :> PStr(S("8500"))))
SCALP_BUY ==
    PDict((S("symbol") :> PStr(Dotted("DEWA", "JK"))) @@ (S("action") :> PStr(S("buy")))
          @@ (S("price") :> PStr(S("258"))))
SCALP_SELL ==
    PDict((S("symbol") :> PStr(Dotted("DEWA", "JK"))) @@ (S("action") :> PStr(S("sell")))
          @@ (S("price") :> PStr(S("262"))))

\* GET /test
TestAlert(cap) ==
    /\ Serving
    /\ request' = Get("/test")
    /\ IF ValidateAlertData(TEST_DATA).kind # "ok" THEN
          /\ response' = Resp(500, "error", "Test failed", ValidateAlertData(TEST_DATA).detail)
          /\ UNCHANGED <<alert_count, last_alert_time, alert_history, posts, telegram>>
       ELSE
          LET f == FormatProfessionalAlert(alert_count, alert_history, TEST_DATA, clock) IN
          /\ alert_count < cap
          /\ alert_count' = f.alert_count
          /\ last_alert_time' = f.last_alert_time
          /\ alert_history' = f.alert_history
          /\ IF f.raised THEN
                /\ response' = Resp(500, "error", "Test failed", "AttributeError")
                /\ UNCHANGED <<posts, telegram>>
             ELSE
                \E o \in SendOutcomes :
                    /\ posts' = Append(posts, f.message.header_id)
                    /\ telegram' = [outcome |-> o, message |-> f.message]
                    /\ response' =
                          IF SendTelegramAlert(o)
                          THEN [Resp(200, "success", "Test alert sent successfully", "")
                                  EXCEPT !.alert_id = f.alert_count]
                          ELSE Resp(500, "error", "Failed to send test alert to Telegram", "")
    /\ UNCHANGED <<proc, env, clock, pc, local>>

\* GET /test/scalping: the two scenarios in turn, each followed by time.sleep(1)
TestScalping(cap) ==
    /\ Serving
    /\ request' = Get("/test/scalping")
    /\ alert_count + 2 <= cap
    /\ clock + 2 <= MaxClock
    /\ LET f1 == FormatProfessionalAlert(alert_count, alert_history, SCALP_BUY, clock)
           f2 == FormatProfessionalAlert(f1.alert_count, f1.alert_history, SCALP_SELL, clock + 1) IN
       \E o1, o2 \in SendOutcomes :
          /\ alert_count' = f2.alert_count
          /\ last_alert_time' = f2.last_alert_time
          /\ alert_history' = f2.alert_history
          /\ posts' = posts \o <<f1.message.header_id, f2.message.header_id>>
          /\ telegram' = [outcome |-> o2, message |-> f2.message]
          /\ response' = [Resp(200, "test_completed", "", "") EXCEPT
                            !.results = <<IF SendTelegramAlert(o1) THEN "success" ELSE "failed",
                                          IF SendTelegramAlert(o2) THEN "success" ELSE "failed">>]
    /\ clock' = clock + 2
    /\ UNCHANGED <<proc, env, pc, local>>

\* GET /
Home ==
    /\ Serving
    /\ request' = Get("/")
    /\ response' = [Resp(200, "active", "", "") EXCEPT
                       !.count = alert_count, !.last_time = last_alert_time]
    /\ UNCHANGED <<proc, env, alert_count, last_alert_time, alert_history, clock,
                   posts, telegram, pc, local>>

\* GET /health
HealthCheck ==
    /\ Serving
    /\ request' = Get("/health")
    /\ response' = [Resp(200, "healthy", "", "") EXCEPT
                       !.count = alert_count, !.last_time = last_alert_time,
                       !.configured = Truthy(env.token) /\ Truthy(env.chat)]
    /\ UNCHANGED <<proc, env, alert_count, last_alert_time, alert_history, clock,
                   posts, telegram, pc, local>>

\* the names bound at module level when a handler runs
ModuleGlobals ==
    {"Flask", "request", "jsonify", "requests", "os", "logging", "datetime", "json", "time",
     "sys", "UnicodeSafeHandler", "logger", "handler", "formatter", "app",
     "TELEGRAM_BOT_TOKEN_ENV", "TELEGRAM_CHAT_ID_ENV", "TELEGRAM_BOT_TOKEN",
     "TELEGRAM_CHAT_ID", "TradingAlertManager", "alert_manager", "home",
     "tradingview_webhook", "test_webhook_format", "test_alert", "test_scalping_alert",
     "health_check", "detailed_status", "not_found", "internal_server_error"}

\* the names detailed_status assigns, and those it reads while building status_details
StatusLocals == {"recent_alerts", "status_details"}
StatusReads == {"alert_manager", "os", "recent_alerts", "bot_configured", "chat_configured",
                "jsonify"}

\* alert_manager.alert_history[-10:] if alert_manager.alert_history else []
RecentAlerts(hist) ==
    IF Len(hist) = 0 THEN <<>>
    ELSE SubSeq(hist, IF Len(hist) > 10 THEN Len(hist) - 9 ELSE 1, Len(hist))

\* GET /status; a NameError reaches the 500 handler, internal_server_error
DetailedStatus ==
    /\ Serving
    /\ request' = Get("/status")
    /\ response' = IF StatusReads \subseteq StatusLocals \cup ModuleGlobals
                   THEN [Resp(200, "operational", "", "") EXCEPT
                            !.count = alert_count, !.last_time = last_alert_time,
                            !.recent = RecentAlerts(alert_history),
                            !.configured = Truthy(env.token) /\ Truthy(env.chat)]
                   ELSE Resp(500, "error", MSG_INTERNAL, "")
    /\ UNCHANGED <<proc, env, alert_count, last_alert_time, alert_history, clock,
                   posts, telegram, pc, local>>

\* GET|POST /webhook/test: how the request would be parsed
TestWebhookFormat(req) ==
    /\ Serving
    /\ request' = req
    /\ response' =
          IF req.method = "GET" THEN Resp(200, "test_endpoint", "", "")
          ELSE [Resp(200, "", "", "") EXCEPT
                  !.parsed =
                     IF CtHas(req.content_type, "application/json") \/
                        CtHas(req.content_type, "text/plain")
                     THEN (IF JsonLoads(req.body).ok THEN JsonLoads(req.body).val ELSE PNone)
                     ELSE PDict(req.form)]
    /\ UNCHANGED <<proc, env, alert_count, last_alert_time, alert_history, clock,
                   posts, telegram, pc, local>>

FormatRequests ==
    {Get("/webhook/test"), Req("/webhook/test", CT_JSON, bBuy, EmptyMap, FALSE),
     Req("/webhook/test", CT_TEXT, bPlain, EmptyMap, FALSE),
     Req("/webhook/test", CT_FORM, bEmpty, fBuy, FALSE)}

\* any other path: not_found
NotFound ==
    /\ Serving
    /\ request' = Get("/favicon.ico")
    /\ response' = Resp(404, "error", "Endpoint not found", "")
    /\ UNCHANGED <<proc, env, alert_count, last_alert_time, alert_history, clock,
                   posts, telegram, pc, local>>

-----------------------------------------------------------------------------

Next ==
    \/ Startup
    \/ Tick
    \/ \E req \in CoreRequests : Webhook(req, MaxAlerts)
    \/ TestAlert(MaxAlerts)
    \/ TestScalping(MaxAlerts)
    \/ Home
    \/ HealthCheck
    \/ DetailedStatus
    \/ \E req \in FormatRequests : TestWebhookFormat(req)
    \/ NotFound

Spec == Init /\ [][Next]_vars

\* every request shape, one alert deep
NextIngest ==
    \/ Startup
    \/ \E req \in WebhookRequests : Webhook(req, IngestAlerts)
    \/ \E req \in FormatRequests : TestWebhookFormat(req)

SpecIngest == Init /\ [][NextIngest]_vars

-----------------------------------------------------------------------------
(* The history at its capacity: /test alerts fill it within one second, then  *)
(* the handlers that format alerts, and /status, run                         *)

FifoStart == HISTORY_MAX - 1
FifoCap == HISTORY_MAX + FifoExtra

NextFifo ==
    \/ Startup
    \/ alert_count < FifoStart /\ TestAlert(FifoStart)
    \/ alert_count >= FifoStart /\ \E req \in CoreRequests : Webhook(req, FifoCap)
    \/ alert_count >= FifoStart /\ TestAlert(FifoCap)
    \/ alert_count >= FifoStart /\ TestScalping(FifoCap)
    \/ alert_count >= FifoStart /\ DetailedStatus

SpecFifo == Init /\ [][NextFifo]_vars

-----------------------------------------------------------------------------
(* POST /webhook on the threads of the server (app.run serves each request  *)
(* on a thread of its own); a thread switch can fall between any two reads  *)
(* and writes of the manager's attributes.                                  *)

ConcRequests ==
    {Req("/webhook", CT_JSON, bBuy, EmptyMap, FALSE),
     Req("/webhook", CT_TEXT, bSellUpper, EmptyMap, FALSE),
     Req("/webhook", CT_JSON, bNoAction, EmptyMap, FALSE)}

Active == {t \in Threads : pc[t] # "idle"}

Goto(t, to) == pc' = [pc EXCEPT ![t] = to]

\* lines 344-450 and 189-204: parse, validate, read the clock
Begin(t, req) ==
    /\ proc = "serving"
    /\ pc[t] = "idle"
    /\ IF Ingest[req].rejected # NoResponse THEN
          /\ local' = [local EXCEPT ![t].req = req, ![t].response = Ingest[req].rejected]
          /\ UNCHANGED pc
       ELSE
          /\ Len(alert_history) + Cardinality(Active) < MaxConcAlerts
          /\ local' = [local EXCEPT ![t].req = req, ![t].data = Ingest[req].pd,
                                    ![t].now = clock, ![t].response = NoResponse]
          /\ Goto(t, "load")
    /\ UNCHANGED <<proc, env, alert_count, last_alert_time, alert_history, clock,
                   request, response, posts, telegram>>

\* line 207, the read of self.alert_count += 1
LoadCount(t) ==
    /\ pc[t] = "load"
    /\ local' = [local EXCEPT ![t].tmp = alert_count]
    /\ Goto(t, "store")
    /\ UNCHANGED <<proc, env, alert_count, last_alert_time, alert_history, clock,
                   request, response, posts, telegram>>

\* line 207, the write of self.alert_count += 1
StoreCount(t) ==
    /\ pc[t] = "store"
    /\ alert_count' = local[t].tmp + 1
    /\ Goto(t, "time")
    /\ UNCHANGED <<proc, env, last_alert_time, alert_history, clock,
                   request, response, posts, telegram, local>>

\* line 208
SetLastTime(t) ==
    /\ pc[t] = "time"
    /\ last_alert_time' = FormatTime(local[t].now)
    /\ Goto(t, "record")
    /\ UNCHANGED <<proc, env, alert_count, alert_history, clock,
                   request, response, posts, telegram, local>>

\* lines 211-218: the record reads self.alert_count again
MakeRecord(t) ==
    /\ pc[t] = "record"
    /\ local' = [local EXCEPT ![t].rec_id = alert_count]
    /\ Goto(t, "append")
    /\ UNCHANGED <<proc, env, alert_count, last_alert_time, alert_history, clock,
                   request, response, posts, telegram>>

\* line 219
AppendRecord(t) ==
    /\ pc[t] = "append"
    /\ alert_history' = Append(alert_history,
                               AlertRecord(local[t].rec_id, local[t].data.v, local[t].now))
    /\ Goto(t, "trim")
    /\ UNCHANGED <<proc, env, alert_count, last_alert_time, clock,
                   request, response, posts, telegram, local>>

\* lines 220-221
TrimHistory(t) ==
    /\ pc[t] = "trim"
    /\ alert_history' = IF Len(alert_history) > HISTORY_MAX THEN Tail(alert_history)
                        ELSE alert_history
    /\ Goto(t, "header")
    /\ UNCHANGED <<proc, env, alert_count, last_alert_time, clock,
                   request, response, posts, telegram, local>>

\* lines 233-261: the header reads self.alert_count once more
RenderHeader(t) ==
    /\ pc[t] = "header"
    /\ IF RenderRaises(local[t].data.v) THEN
          /\ local' = [local EXCEPT ![t].response = Resp(500, "error", MSG_INTERNAL, "AttributeError")]
          /\ Goto(t, "idle")
       ELSE
          /\ local' = [local EXCEPT ![t].header_id = alert_count]
          /\ Goto(t, "send")
    /\ UNCHANGED <<proc, env, alert_count, last_alert_time, alert_history, clock,
                   request, response, posts, telegram>>

\* line 458
SendAlert(t) ==
    /\ pc[t] = "send"
    /\ \E o \in SendOutcomes :
          /\ posts' = Append(posts, local[t].header_id)
          /\ telegram' = [outcome |-> o,
                          message |-> RenderMessage(local[t].header_id, local[t].data.v, local[t].now)]
          /\ local' = [local EXCEPT ![t].success = SendTelegramAlert(o)]
    /\ Goto(t, "respond")
    /\ UNCHANGED <<proc, env, alert_count, last_alert_time, alert_history, clock,
                   request, response>>

\* lines 463-480: the response reads alert_manager.alert_count
Respond(t) ==
    /\ pc[t] = "respond"
    /\ local' = [local EXCEPT ![t].response = WebhookSent(local[t].success, local[t].data, alert_count)]
    /\ Goto(t, "idle")
    /\ UNCHANGED <<proc, env, alert_count, last_alert_time, alert_history, clock,
                   request, response, posts, telegram>>

NextConc ==
    \/ Startup
    \/ \E t \in Threads, req \in ConcRequests : Begin(t, req)
    \/ \E t \in Threads : LoadCount(t)
    \/ \E t \in Threads : StoreCount(t)
    \/ \E t \in Threads : SetLastTime(t)
    \/ \E t \in Threads : MakeRecord(t)
    \/ \E t \in Threads : AppendRecord(t)
    \/ \E t \in Threads : TrimHistory(t)
    \/ \E t \in Threads : RenderHeader(t)
    \/ \E t \in Threads : SendAlert(t)
    \/ \E t \in Threads : Respond(t)

SpecConc == Init /\ [][NextConc]_vars

-----------------------------------------------------------------------------
(* Properties *)

Last(q) == q[Len(q)]
Ids(hist) == [i \in 1..Len(hist) |-> hist[i].alert_id]
Times(q, x) == Cardinality({i \in 1..Len(q) : q[i] = x})
Formatted == alert_count' - alert_count
Max(a, b) == IF a > b THEN a ELSE b

\* C1: from a fresh manager, handlers running one after another, the k-th
\* format_professional_alert call stores the record with alert_id k: a step
\* that formats n alerts appends records numbered alert_count + 1 ..
\* alert_count + n, and no step lowers alert_count.
C1_SequentialIds ==
    /\ (alert_count = 0 /\ alert_history = <<>>)
    /\ [][/\ Formatted >= 0
          /\ Len(alert_history') >= Formatted
          /\ \A i \in 1..Formatted :
                alert_history'[Len(alert_history') - Formatted + i].alert_id = alert_count + i]_vars

C1_Witness ==
    alert_count = 2 /\ Ids(alert_history) = <<1, 2>> /\ request.route = "/webhook"

\* C2: the history never holds more than 100 entries; a step that formats
\* alerts keeps a suffix of the old history followed by the new records, the
\* entries it evicts are exactly those over the capacity and carry the
\* smallest ids, and the newest record is retained.
C2_BoundedFifo ==
    /\ [](Len(alert_history) <= HISTORY_MAX)
    /\ [][Formatted > 0 =>
            LET h == alert_history
                h2 == alert_history'
                evicted == Len(h) + Formatted - Len(h2) IN
            /\ evicted = Max(0, Len(h) + Formatted - HISTORY_MAX)
            /\ SubSeq(h2, 1, Len(h2) - Formatted) = SubSeq(h, evicted + 1, Len(h))
            /\ \A i \in 1..evicted : \A j \in (evicted + 1)..Len(h) :
                  h[i].alert_id < h[j].alert_id
            /\ Last(h2).alert_id = alert_count']_vars

C2_Witness ==
    /\ Len(alert_history) = HISTORY_MAX
    /\ alert_count = HISTORY_MAX + 1
    /\ alert_history[1].alert_id = 2
    /\ Last(alert_history).alert_id = HISTORY_MAX + 1

\* C3: when the handlers running on the server's threads have all returned,
\* the records they stored carry distinct alert_ids that form the range
\* 1 .. N, and alert_count is N.
C3_DistinctIdsClaim ==
    (\A t \in Threads : pc[t] = "idle") =>
        /\ alert_count = Len(alert_history)
        /\ \A i \in 1..Len(alert_history) : alert_history[i].alert_id = i

\* C4: a POST /webhook whose delivery ends in a timeout, a connection
\* failure, another exception or a non-200 status is answered with 500 and
\* the "processed but failed to send" body, and its record stays in the
\* history with alert_count incremented.
C4_FailedDelivery ==
    [][(/\ Len(posts') = Len(posts) + 1
        /\ request'.route = "/webhook"
        /\ telegram'.outcome \in SendOutcomes \ {"200"})
       => /\ response'.code = 500
          /\ response'.message = MSG_NOT_SENT
          /\ alert_count' = alert_count + 1
          /\ Last(alert_history').alert_id = alert_count'
          /\ Last(alert_history').symbol = telegram'.message.symbol
          /\ Last(posts') = alert_count']_vars

C4_Witness ==
    /\ request.route = "/webhook"
    /\ telegram.outcome = "ConnectionError"
    /\ response.code = 500 /\ response.message = MSG_NOT_SENT
    /\ alert_count = 2 /\ Last(alert_history).alert_id = 2

\* the mapping that reaches validation
Validated(req) == Unwrap(Resolve(req))

ReachesValidation(req) ==
    req.route = "/webhook" /\ Truthy(Resolve(req)) /\ Validated(req).t = "dict"

ManagerUnchanged == UNCHANGED <<alert_count, last_alert_time, alert_history, posts>>

\* C5: a non-empty mapping that lacks symbol or action, or whose action
\* lower-cased is not an allowed action, whatever the types of its values,
\* is answered with 400, formats no alert and sends nothing.
C5_RejectedClaim ==
    [][(/\ ReachesValidation(request')
        /\ LET d == Validated(request').v IN
           \/ S("symbol") \notin DOMAIN d
           \/ S("action") \notin DOMAIN d
           \/ d[S("action")].t # "str"
           \/ ~ActionIsValid(d[S("action")].v))
       => response'.code = 400 /\ ManagerUnchanged]_vars

\* C6: a POST /webhook with an empty body, no usable content type and no
\* form fields, and any request whose resolved mapping is empty or absent,
\* is answered with 400 "No data received or could be parsed" and changes
\* neither the counter nor the history, and sends nothing.
C6_NoData ==
    [][(/\ request'.route = "/webhook"
        /\ \/ /\ request'.body = bEmpty
              /\ request'.form = EmptyMap
              /\ ~CtHas(request'.content_type, "application/json")
              /\ ~CtHas(request'.content_type, "text/plain")
           \/ ~Truthy(Resolve(request')))
       => /\ response'.code = 400
          /\ response'.message = MSG_NO_DATA
          /\ ManagerUnchanged]_vars

C6_Witness ==
    /\ request.route = "/webhook"
    /\ request.body = bEmpty /\ request.content_type = CT_FORM /\ request.form = EmptyMap
    /\ response.code = 400 /\ response.message = MSG_NO_DATA
    /\ alert_count = 1

\* C7: a text/plain POST /webhook whose non-empty body is not JSON and whose
\* form holds nothing resolves to {"raw_message": raw_body} and goes on to
\* validation rather than being answered as no data.
C7_RawWrapClaim ==
    (/\ request.route = "/webhook"
     /\ CtHas(request.content_type, "text/plain")
     /\ Len(request.body) > 0
     /\ ~JsonLoads(request.body).ok
     /\ request.form = EmptyMap)
    => /\ Resolve(request) = PDict(S("raw_message") :> PStr(request.body))
       /\ response.message # MSG_NO_DATA

\* C8: the mapping that goes to validation is the re-parsed raw_message only
\* when raw_message is the mapping's one key, its value is a str in braces
\* and the str parses; otherwise it is the mapping resolved before.
C8_UnwrapClaim ==
    (request.route = "/webhook" /\ Truthy(Resolve(request))) =>
        LET data == Resolve(request)
            sole == /\ data.t = "dict"
                    /\ DOMAIN data.v = {S("raw_message")}
                    /\ data.v[S("raw_message")].t = "str"
                    /\ StartsWith(data.v[S("raw_message")].v, "{")
                    /\ EndsWith(data.v[S("raw_message")].v, "}")
                    /\ JsonLoads(data.v[S("raw_message")].v).ok IN
        Ingest[request].pd =
            IF sole THEN JsonLoads(data.v[S("raw_message")].v).val ELSE data

\* C9: GET /status answers 200 with the alert count, the last alert time,
\* the last min(10, len) history entries in order and the configuration
\* flags, and changes neither the counter nor the history.
C9_StatusClaim ==
    [][request'.route = "/status" =>
          /\ response'.code = 200
          /\ response'.count = alert_count
          /\ response'.last_time = last_alert_time
          /\ response'.recent = RecentAlerts(alert_history)
          /\ ManagerUnchanged]_vars

\* C10: once the handlers have returned, every sequence number consumed has
\* had exactly one message POSTed for it.
C10_OnePostClaim ==
    Serving => \A k \in 1..alert_count : Times(posts, k) = 1

\* C11: the signal of a POSTed message is the table's entry for the
\* lower-cased action (buy/long BULLISH HIGH, sell/short BEARISH HIGH,
\* exit/close NEUTRAL MEDIUM, anything else NEUTRAL LOW with the upper-cased
\* action as its text), the header is the URGENT form exactly when the
\* urgency is HIGH, and it carries the sequence number of the alert.
C11_SignalTable ==
    [][Len(posts') = Len(posts) + 1 =>
          LET m == telegram'.message
              a == Lower(m.action.v)
              sig == m.signal IN
          /\ a \in {S("buy"), S("long")} => sig.sentiment = "BULLISH" /\ sig.urgency = "HIGH"
          /\ a \in {S("sell"), S("short")} => sig.sentiment = "BEARISH" /\ sig.urgency = "HIGH"
          /\ a \in {S("exit"), S("close")} => sig.sentiment = "NEUTRAL" /\ sig.urgency = "MEDIUM"
          /\ a \notin {S("buy"), S("long"), S("sell"), S("short"), S("exit"), S("close")} =>
                sig.sentiment = "NEUTRAL" /\ sig.urgency = "LOW" /\ sig.signal_text = Upper(m.action.v)
          /\ m.urgent <=> sig.urgency = "HIGH"
          /\ m.header_id = Last(alert_history').alert_id
          /\ m.header_id = alert_count + 1]_vars

C11_Witness ==
    /\ telegram.message.action = PStr(S("entry"))
    /\ telegram.message.signal.urgency = "LOW"
    /\ telegram.message.signal.signal_text = S("ENTRY")
    /\ ~telegram.message.urgent
    /\ telegram.message.header_id = 1

\* C12: a text/plain POST /webhook whose body is JSON text resolves to the
\* same data as the application/json request with the same body, and is
\* answered as that request is: the same rejection, or an alert formatted
\* with the same symbol, action and price.
JsonTwin(req) == [req EXCEPT !.content_type = CT_JSON]

C12_PathIndependent ==
    (/\ request.route = "/webhook"
     /\ request.content_type = CT_TEXT
     /\ JsonLoads(request.body).ok) =>
        LET twin == JsonTwin(request)
            pd == Ingest[twin].pd IN
        /\ Resolve(request) = Resolve(twin)
        /\ IF Ingest[twin].rejected # NoResponse
           THEN response = Ingest[twin].rejected
           ELSE /\ response.message \in {MSG_DELIVERED, MSG_NOT_SENT, MSG_INTERNAL}
                /\ alert_history # <<>>
                /\ Last(alert_history).symbol = DictGet(pd.v, "symbol", PStr(S("UNKNOWN")))
                /\ Last(alert_history).action = DictGet(pd.v, "action", PStr(<<>>))
                /\ Last(alert_history).price = DictGet(pd.v, "price", PStr(S("N/A")))
                /\ response.code = 200 =>
                      /\ response.symbol = DictGet(pd.v, "symbol", PNone)
                      /\ response.action = DictGet(pd.v, "action", PNone)

C12_Witness ==
    /\ request.route = "/webhook"
    /\ request.content_type = CT_TEXT
    /\ request.body = bSellUpper
    /\ response.code = 200
    /\ Len(alert_history) = 1
    /\ Last(alert_history).action = PStr(S("SELL"))

\* C13: the process serves only when the bot token and the chat id were both
\* non-empty at startup; with either missing it exits with no request served;
\* every answer of GET /health reports telegram_configured = true; and once
\* serving, no request, whatever its outcome, ends the process.
Configured == Truthy(env.token) /\ Truthy(env.chat)

C13_ServingIsConfigured ==
    /\ [](/\ proc = "serving" => Configured
          /\ proc = "exited" => ~Configured
          /\ proc # "serving" =>
                /\ request = NoRequest /\ response = NoResponse
                /\ alert_count = 0 /\ posts = <<>>
          /\ request.route = "/health" => response.code = 200 /\ response.configured)
    /\ [][/\ proc = "serving" => proc' = "serving"
          /\ request' # request \/ response' # response => proc = "serving"
          /\ env' = env]_vars

C13_Witness ==
    /\ proc = "serving"
    /\ request.route = "/health"
    /\ response.configured
    /\ response.count = 1
    /\ telegram.outcome = "Timeout"

\* C14: for every POST /webhook request answered 200, the alert_id of its
\* response and the number in the header of its message are the alert_id of
\* the history record that the same request appended.
C14_OwnIdClaim ==
    \A t \in Threads :
        (pc[t] = "idle" /\ local[t].response.code = 200) =>
            /\ local[t].response.alert_id = local[t].rec_id
            /\ local[t].header_id = local[t].rec_id

\* C15: with handlers running one after another, the history holds
\* min(alert_count, 100) records, their alert_ids ascend by one in list
\* order, the last one is alert_count, and last_alert_time is None exactly
\* when alert_count is 0 and is otherwise the timestamp of the last record.
Min(a, b) == IF a < b THEN a ELSE b

C15_ManagerInvariant ==
    /\ Len(alert_history) = Min(alert_count, HISTORY_MAX)
    /\ \A i \in 1..(Len(alert_history) - 1) :
          alert_history[i + 1].alert_id = alert_history[i].alert_id + 1
    /\ alert_history # <<>> => Last(alert_history).alert_id = alert_count
    /\ (last_alert_time = PNone) <=> (alert_count = 0)
    /\ alert_count > 0 => last_alert_time = Last(alert_history).timestamp

C15_Witness ==
    /\ alert_count = HISTORY_MAX + 2
    /\ Len(alert_history) = HISTORY_MAX
    /\ alert_history[1].alert_id = 3
    /\ last_alert_time = FormatTime(2)
    /\ Last(alert_history).timestamp = FormatTime(2)
    /\ request.body = bSymbolInt /\ response.code = 500

====
